---- MODULE Spec2Model ----
(***************************************************************************)
(* HooYia Market: the order lifecycle (apps/orders), the product stock it  *)
(* moves (apps/products) and the cart it consumes (apps/cart).             *)
(*                                                                         *)
(* The database is PostgreSQL (config/settings.py), READ COMMITTED: every  *)
(* query reads the rows committed at that moment, the writes of a          *)
(* transaction.atomic block become visible together at its commit, and a   *)
(* statement outside such a block commits on its own.  A request is a      *)
(* worker going through the queries of its handler; the fields of the      *)
(* model instances it has loaded are its local state req[w].  A row lock    *)
(* delays a statement behind another transaction's commit; the one place    *)
(* where that changes an outcome, the DELETE of a product row that a        *)
(* pending transaction has updated, is a guard of SupprimerProduit.         *)
(***************************************************************************)
EXTENDS Integers, Sequences, FiniteSets, TLC

\* ---------------------------------------------------------------- bounds
MaxStock == 2
MaxQuantite == 2
MaxCommandes == 2
MaxRequetes == 3
MaxMouvements == 1

\* ------------------------------------------------------------- universe
NULL == "null"
Produits == {"pA", "pB"}
Clients == {"c1", "c2"}
Admins == {"adm"}
Utilisateurs == Clients \cup Admins
Workers == {"w1", "w2"}
Noms == {"n1", "n2"}
Prix == {1, 2}

\* Commande.STATUT_CHOICES
EN_ATTENTE == "en_attente"
CONFIRMEE == "confirmee"
EN_PREPARATION == "en_preparation"
EXPEDIEE == "expediee"
LIVREE == "livree"
ANNULEE == "annulee"
Statuts == {EN_ATTENTE, CONFIRMEE, EN_PREPARATION, EXPEDIEE, LIVREE, ANNULEE}

\* Produit.Statut
ACTIF == "actif"
EPUISE == "epuise"
INACTIF == "inactif"
ARCHIVE == "archive"

\* Paiement.ModePaiement and Paiement.StatutPaiement
LIVRAISON == "livraison"
PAIEMENT_EN_ATTENTE == "en_attente"
REUSSI == "reussi"

\* CustomUser.is_admin
is_admin(u) == u \in Admins

VARIABLES
  produits,     \* Produit rows: existe, nom, stock, statut, prix
  paniers,      \* PanierItem rows of each client's Panier
  commandes,    \* Commande rows, by primary key 1..Len
  lignes,       \* LigneCommande rows of each Commande
  paiements,    \* Paiement rows
  mouvements,   \* MouvementStock rows
  taches,       \* Celery queue: the tasks enqueued so far
  pc,           \* where each worker is in its request
  req,          \* the request's local (in-memory) state
  resultat,     \* how the worker's last request ended
  nb_requetes,  \* requests received so far
  stock_initial, \* history: each product's stock in the initial state
  restitue      \* history: order lines whose stock a cancellation has restored

vars == <<produits, paniers, commandes, lignes, paiements, mouvements, taches,
          pc, req, resultat, nb_requetes, stock_initial, restitue>>

bd == <<produits, paniers, commandes, lignes, paiements, mouvements>>

\* ---------------------------------------------------------- pure helpers

\* Commande: the @transition decorators
Sources(ev) ==
  CASE ev = "confirmer" -> {EN_ATTENTE}
    [] ev = "mettre_en_preparation" -> {CONFIRMEE}
    [] ev = "expedier" -> {EN_PREPARATION}
    [] ev = "livrer" -> {EXPEDIEE}
    [] ev = "annuler" -> {EN_ATTENTE, CONFIRMEE, EN_PREPARATION, EXPEDIEE}

Cible(ev) ==
  CASE ev = "confirmer" -> CONFIRMEE
    [] ev = "mettre_en_preparation" -> EN_PREPARATION
    [] ev = "expedier" -> EXPEDIEE
    [] ev = "livrer" -> LIVREE
    [] ev = "annuler" -> ANNULEE

Evenements == {"confirmer", "mettre_en_preparation", "expedier", "livrer", "annuler"}

\* variant: a delivered order still counts as cancellable
peut_etre_annulee_sansLivree(inst) == inst.statut # ANNULEE

\* Commande.peut_etre_annulee
peut_etre_annulee(inst) == inst.statut \notin {LIVREE, ANNULEE}

\* variant: save() writes the status it is given
SaveStatut_sansRegle(stock, statut) == statut

\* Produit.save: an active product saved with stock 0 becomes out of stock
SaveStatut(stock, statut) ==
  IF stock = 0 /\ statut = ACTIF THEN EPUISE ELSE statut

\* PanierItem.sous_total summed: Panier.total
RECURSIVE total(_)
total(items) ==
  IF items = {} THEN 0
  ELSE LET i == CHOOSE i \in items : TRUE
       IN i.quantite * i.prix_snapshot + total(items \ {i})

\* utilisateur.panier: the user's Panier row exists (the administrator's has
\* been deleted)
a_panier(u) == u \in DOMAIN paniers

\* variant: the cart is never found empty
est_vide_jamais(c) == FALSE

\* Panier.est_vide
est_vide(c) == paniers[c] = {}

\* the rows a queryset with select_related('produit') returns: each row
\* with the stock and status of its product as committed at that moment
AvecProduit(rows) ==
  { [cle |-> r.cle, produit |-> r.produit, quantite |-> r.quantite,
     prix |-> r.prix,
     p_nom |-> IF r.produit = NULL THEN NULL ELSE produits[r.produit].nom,
     p_stock |-> IF r.produit = NULL THEN 0 ELSE produits[r.produit].stock,
     p_statut |-> IF r.produit = NULL THEN NULL ELSE produits[r.produit].statut]
    : r \in rows }

ItemsPanier(c) ==
  AvecProduit({ [cle |-> i.cle, produit |-> i.produit, quantite |-> i.quantite,
                 prix |-> i.prix_snapshot] : i \in paniers[c] })

\* the instance of a request that has loaded nothing
InstVide == [client |-> NULL, statut |-> NULL, date_livraison |-> NULL,
             montant_total |-> 0]

ReqVide == [op |-> "aucune", user |-> NULL, cmd |-> 0, ev |-> NULL,
            inst |-> InstVide, lus |-> {}, total |-> 0, notif |-> "aucune"]

EnCreation ==
  { w \in Workers : pc[w] \in {"cr_items", "cr_total", "cr_ecrire", "cr_commit"} }

\* ------------------------------------------------------------ initial state
PanierInitial(qA, qB) ==
  { [cle |-> x, produit |-> x, quantite |-> IF x = "pA" THEN qA ELSE qB,
     prix_snapshot |-> IF x = "pA" THEN 1 ELSE 2]
    : x \in { y \in Produits : (IF y = "pA" THEN qA ELSE qB) > 0 } }

Init ==
  /\ \E sA \in 1..MaxStock :
       produits = [x \in Produits |->
                     LET s == IF x = "pA" THEN sA ELSE 1
                     IN [existe |-> TRUE, nom |-> "n1", stock |-> s,
                         statut |-> SaveStatut(s, ACTIF),
                         prix |-> IF x = "pA" THEN 1 ELSE 2]]
  /\ \E q2 \in 1..MaxQuantite :
       paniers = [c \in Clients |->
                    IF c = "c1" THEN PanierInitial(1, 1)
                    ELSE PanierInitial(q2, 0)]
  /\ commandes = <<>>
  /\ lignes = <<>>
  /\ paiements = <<>>
  /\ mouvements = <<>>
  /\ taches = <<>>
  /\ pc = [w \in Workers |-> "repos"]
  /\ req = [w \in Workers |-> ReqVide]
  /\ resultat = [w \in Workers |-> "aucun"]
  /\ nb_requetes = 0
  /\ stock_initial = [x \in Produits |-> produits[x].stock]
  /\ restitue = <<>>

\* a request arrives and is handed to the first idle worker
Requete(w) ==
  /\ pc[w] = "repos"
  /\ w = "w1" \/ pc["w1"] # "repos"
  /\ nb_requetes < MaxRequetes
  /\ nb_requetes' = nb_requetes + 1

Fin(w, r) ==
  /\ pc' = [pc EXCEPT ![w] = "repos"]
  /\ req' = [req EXCEPT ![w] = ReqVide]
  /\ resultat' = [resultat EXCEPT ![w] = r]

\* ------------------------------------------- OrderService.create_from_cart

\* the ValidationError the stock check raises for a cart line
ErreurLigne(i) ==
  IF i.produit = NULL THEN "ProduitIndisponible" ELSE "StockInsuffisant"

\* variant: only the missing product is checked, not the stock
LigneRefusee_sansStock(i) == i.produit = NULL

\* the stock check of one cart line (step 2)
LigneRefusee(i) == i.produit = NULL \/ i.p_stock < i.quantite

\* step 1: utilisateur.panier, panier.est_vide
CreerDebut(w, c) ==
  /\ Requete(w)
  /\ Len(commandes) + Cardinality(EnCreation) < MaxCommandes
  /\ IF ~a_panier(c)
     THEN Fin(w, "PasDePanier")
     ELSE IF est_vide(c)
     THEN Fin(w, "PanierVide")
     ELSE /\ pc' = [pc EXCEPT ![w] = "cr_items"]
          /\ req' = [req EXCEPT ![w] = [ReqVide EXCEPT !.op = "creer", !.user = c]]
          /\ resultat' = [resultat EXCEPT ![w] = "aucun"]
  /\ UNCHANGED <<bd, taches, stock_initial, restitue>>

\* step 2: the items queryset is evaluated, every line is checked
CreerValider(w) ==
  /\ pc[w] = "cr_items"
  /\ UNCHANGED nb_requetes
  /\ LET items == ItemsPanier(req[w].user)
         refusees == { i \in items : LigneRefusee(i) }
     IN IF refusees # {}
        THEN \E i \in refusees : Fin(w, ErreurLigne(i))
        ELSE /\ pc' = [pc EXCEPT ![w] = "cr_total"]
             /\ req' = [req EXCEPT ![w].lus = items]
             /\ UNCHANGED resultat
  /\ UNCHANGED <<bd, taches, stock_initial, restitue>>

\* step 3: panier.total is read for Commande.objects.create
CreerTotal(w) ==
  /\ pc[w] = "cr_total"
  /\ UNCHANGED nb_requetes
  /\ pc' = [pc EXCEPT ![w] = "cr_ecrire"]
  /\ req' = [req EXCEPT ![w].total = total(paniers[req[w].user])]
  /\ UNCHANGED <<bd, taches, resultat, stock_initial, restitue>>

\* step 5: item.produit.stock -= item.quantite; item.produit.save(...)
StockDecremente(i) == i.p_stock - i.quantite

\* the Produit rows after the saves of the in-memory products of `lus`
\* (update_fields=['stock', 'statut']); nouveau[i] is the stock saved
ProduitsApres(lus, nouveau) ==
  [x \in Produits |->
     IF \E i \in lus : i.produit = x
     THEN LET i == CHOOSE i \in lus : i.produit = x
          IN [produits[x] EXCEPT !.stock = nouveau[i],
                                 !.statut = SaveStatut(nouveau[i], i.p_statut)]
     ELSE produits[x]]

\* a product row saved or referenced by the transaction no longer exists
ProduitDisparu(lus) == \E i \in lus : ~produits[i.produit].existe

\* variant: the lines do not take the quantity of the cart line
LignesDe_quantiteUn(lus) ==
  { [cle |-> i.cle, produit |-> i.produit, produit_nom |-> i.p_nom,
     quantite |-> 1, prix_unitaire |-> i.prix] : i \in lus }

\* step 4: the LigneCommande rows built from the cart lines
LignesDe(lus) ==
  { [cle |-> i.cle, produit |-> i.produit, produit_nom |-> i.p_nom,
     quantite |-> i.quantite, prix_unitaire |-> i.prix] : i \in lus }

\* variant: the payment is created without the order's amount
PaiementDe_sansMontant(o, montant_total, mode) ==
  [commande |-> o, mode |-> mode, statut |-> PAIEMENT_EN_ATTENTE, montant |-> 0]

\* step 6: Paiement.objects.create(commande, mode, montant=montant_total);
\* statut takes the field's default
PaiementDe(o, montant_total, mode) ==
  [commande |-> o, mode |-> mode, statut |-> PAIEMENT_EN_ATTENTE,
   montant |-> montant_total]

\* ------------------------------------------- post_save receivers of Commande

\* the task a post_save of a saved (not created) instance asks Celery for:
\* envoyer_email_confirmation on CONFIRMEE, planifier_rappel_avis on LIVREE
TacheApres(inst) ==
  CASE inst.statut = CONFIRMEE -> "send_order_confirmation_email"
    [] inst.statut = LIVREE -> "send_review_reminder"
    [] OTHER -> NULL

\* variant: no try/except around the enqueueing
SignalLeve_sansTry(enfile) == ~enfile

\* whether the receiver raises into the save() that sent the signal, given
\* that .delay() went through or raised: except Exception logs and goes on
SignalLeve(enfile) == FALSE

\* the queue after the receivers have run for `inst`; tx is the worker whose
\* open transaction holds the save (NULL when the save has committed), o the
\* order's key (0 as long as no committed row carries it)
Notifier(inst, enfile, o, tx) ==
  IF TacheApres(inst) # NULL /\ enfile
  THEN Append(taches, [nom |-> TacheApres(inst), cmd |-> o, tx |-> tx])
  ELSE taches

\* what the request remembers of the enqueueing
EtatNotif(inst, enfile) ==
  IF TacheApres(inst) = NULL THEN "aucune"
  ELSE IF enfile THEN "enfilee" ELSE "echec"

\* steps 3 to 8 inside the transaction: the rows are written (the product
\* rows it saves stay locked until the commit), then commande.confirmer()
\* and commande.save() send post_save
CreerEcrire(w) ==
  /\ pc[w] = "cr_ecrire"
  /\ UNCHANGED nb_requetes
  /\ IF ProduitDisparu(req[w].lus)
     THEN /\ Fin(w, "DatabaseError")
          /\ UNCHANGED taches
     ELSE \E enfile \in BOOLEAN :
            LET cree == [InstVide EXCEPT !.client = req[w].user, !.statut = EN_ATTENTE,
                                         !.montant_total = req[w].total]
                confirmee == [cree EXCEPT !.statut = Cible("confirmer")]
            IN /\ cree.statut \in Sources("confirmer")
               /\ IF SignalLeve(enfile)
                  THEN /\ Fin(w, "ErreurNotification")
                       /\ UNCHANGED taches
                  ELSE /\ taches' = Notifier(confirmee, enfile, 0, w)
                       /\ pc' = [pc EXCEPT ![w] = "cr_commit"]
                       /\ req' = [req EXCEPT ![w].inst = confirmee,
                                             ![w].notif = EtatNotif(confirmee, enfile)]
                       /\ UNCHANGED resultat
  /\ UNCHANGED <<bd, stock_initial, restitue>>

\* the tasks of worker w's transaction once it has committed order o
TachesValidees(w, o) ==
  [k \in 1..Len(taches) |->
     IF taches[k].tx = w THEN [taches[k] EXCEPT !.tx = NULL, !.cmd = o]
     ELSE taches[k]]

\* the commit of the transaction: order, lines, stock, payment and the
\* emptied cart become visible together
CreerCommit(w) ==
  /\ pc[w] = "cr_commit"
  /\ UNCHANGED nb_requetes
  /\ LET c == req[w].user
         o == Len(commandes) + 1
     IN /\ commandes' = Append(commandes, req[w].inst)
        /\ lignes' = Append(lignes, LignesDe(req[w].lus))
        /\ produits' = ProduitsApres(req[w].lus, [i \in req[w].lus |-> StockDecremente(i)])
        /\ paiements' = Append(paiements, PaiementDe(o, req[w].inst.montant_total, LIVRAISON))
        /\ paniers' = [paniers EXCEPT ![c] = {}]
        /\ taches' = TachesValidees(w, o)
        /\ restitue' = Append(restitue, {})
        /\ Fin(w, "ok")
        /\ UNCHANGED <<mouvements, stock_initial>>

\* ------------------------------------------------ Commande transitions

\* Commande.objects.get(pk=pk): the row as committed now, as an instance
Charger(w, op, ev, u, o) ==
  /\ Requete(w)
  /\ o \in 1..Len(commandes)
  /\ pc' = [pc EXCEPT ![w] = IF op = "annuler_commande" THEN "an_charge" ELSE "tr_charge"]
  /\ req' = [req EXCEPT ![w] = [ReqVide EXCEPT !.op = op, !.ev = ev, !.user = u,
                                               !.cmd = o, !.inst = commandes[o]]]
  /\ resultat' = [resultat EXCEPT ![w] = "aucun"]
  /\ UNCHANGED <<bd, taches, stock_initial, restitue>>

\* variant: no source check
TransitionPermise_toujours(inst, ev) == TRUE

\* django-fsm's check of a @transition: the instance's statut is a source
TransitionPermise(inst, ev) == inst.statut \in Sources(ev)

\* variant: livrer does not set the date
ApresTransition_sansDate(inst, ev) == [inst EXCEPT !.statut = Cible(ev)]

\* the instance after the transition method has run (livrer sets the date)
ApresTransition(inst, ev) ==
  [inst EXCEPT !.statut = Cible(ev),
               !.date_livraison = IF ev = "livrer" THEN "horodatage"
                                  ELSE inst.date_livraison]

\* self.lignes.select_related('produit').all(), the lines with a product
LignesAvecProduit(o) ==
  AvecProduit({ [cle |-> l.cle, produit |-> l.produit, quantite |-> l.quantite,
                 prix |-> l.prix_unitaire]
                : l \in { m \in lignes[o] : m.produit # NULL } })

\* Commande.annuler: ligne.produit.stock += ligne.quantite
StockRestitue(i) == i.p_stock + i.quantite

\* history: the lines of order o that these saves have restored
RestitueApres(o, lus) ==
  [restitue EXCEPT ![o] = @ \cup { i.cle : i \in lus }]

\* TransitionCommandeAPIView.post and CommandeAdmin._appliquer_transition:
\* methode() then commande.save(), each statement committed on its own
TransitionAppliquer(w) ==
  /\ pc[w] = "tr_charge"
  /\ UNCHANGED nb_requetes
  /\ LET o == req[w].cmd
         ev == req[w].ev
     IN IF ~TransitionPermise(req[w].inst, ev)
        THEN /\ Fin(w, "TransitionNotAllowed")
             /\ UNCHANGED <<bd, taches, stock_initial, restitue>>
        ELSE IF ev = "annuler"
        THEN /\ pc' = [pc EXCEPT ![w] = "tr_lignes"]
             /\ req' = [req EXCEPT ![w].lus = LignesAvecProduit(o)]
             /\ UNCHANGED <<bd, taches, resultat, stock_initial, restitue>>
        ELSE \E enfile \in BOOLEAN :
               LET apres == ApresTransition(req[w].inst, ev)
               IN /\ commandes' = [commandes EXCEPT ![o] = apres]
                  /\ taches' = Notifier(apres, enfile, o, NULL)
                  /\ Fin(w, IF TacheApres(apres) # NULL /\ SignalLeve(enfile)
                            THEN "ErreurNotification" ELSE "ok")
                  /\ UNCHANGED <<produits, paniers, lignes, paiements, mouvements,
                                 stock_initial, restitue>>

\* Commande.annuler outside a transaction: one product saved per step
AnnulerLigne(w) ==
  /\ pc[w] = "tr_lignes"
  /\ UNCHANGED nb_requetes
  /\ \E i \in req[w].lus :
       IF ~produits[i.produit].existe
       THEN /\ Fin(w, "DatabaseError")
            /\ UNCHANGED <<bd, taches, stock_initial, restitue>>
       ELSE /\ produits' = ProduitsApres({i}, [j \in {i} |-> StockRestitue(j)])
            /\ restitue' = RestitueApres(req[w].cmd, {i})
            /\ UNCHANGED stock_initial
            /\ req' = [req EXCEPT ![w].lus = @ \ {i}]
            /\ UNCHANGED <<paniers, commandes, lignes, paiements, mouvements,
                           taches, pc, resultat>>

\* commande.save() after annuler() has returned
AnnulerSave(w) ==
  /\ pc[w] = "tr_lignes"
  /\ UNCHANGED nb_requetes
  /\ req[w].lus = {}
  /\ commandes' = [commandes EXCEPT ![req[w].cmd] = ApresTransition(req[w].inst, "annuler")]
  /\ Fin(w, "ok")
  /\ UNCHANGED <<produits, paniers, lignes, paiements, mouvements, taches,
                 stock_initial, restitue>>

\* -------------------------------------------- OrderService.annuler_commande

\* the checks of annuler_commande, then annuler() reads the lines
AnnulerExecuter(w) ==
  /\ pc[w] = "an_charge"
  /\ UNCHANGED nb_requetes
  /\ LET inst == req[w].inst
         u == req[w].user
     IN IF inst.client # u /\ ~is_admin(u)
        THEN Fin(w, "NonAutorise")
        ELSE IF ~peut_etre_annulee(inst)
        THEN Fin(w, "NonAnnulable")
        ELSE IF ~TransitionPermise(inst, "annuler")
        THEN Fin(w, "TransitionNotAllowed")
        ELSE /\ pc' = [pc EXCEPT ![w] = "an_commit"]
             /\ req' = [req EXCEPT ![w].lus = LignesAvecProduit(req[w].cmd)]
             /\ UNCHANGED resultat
  /\ UNCHANGED <<bd, taches, stock_initial, restitue>>

\* the product saves and commande.save() commit together
AnnulerCommit(w) ==
  /\ pc[w] = "an_commit"
  /\ UNCHANGED nb_requetes
  /\ IF ProduitDisparu(req[w].lus)
     THEN /\ Fin(w, "DatabaseError")
          /\ UNCHANGED <<bd, taches, stock_initial, restitue>>
     ELSE /\ produits' = ProduitsApres(req[w].lus, [i \in req[w].lus |-> StockRestitue(i)])
          /\ commandes' = [commandes EXCEPT ![req[w].cmd] =
                             ApresTransition(req[w].inst, "annuler")]
          /\ restitue' = RestitueApres(req[w].cmd, req[w].lus)
          /\ UNCHANGED stock_initial
          /\ Fin(w, "ok")
          /\ UNCHANGED <<paniers, lignes, paiements, mouvements, taches>>

\* ------------------------------------------------------ product deletion

\* variant: on_delete=CASCADE, the rows of the product go with it
SansProduit_cascade(rows, x) == { r \in rows : r.produit # x }

\* on_delete=SET_NULL of PanierItem.produit and LigneCommande.produit
SansProduit(rows, x) ==
  { IF r.produit = x THEN [r EXCEPT !.produit = NULL] ELSE r : r \in rows }

\* the row of product x is locked by the UPDATE of a transaction that has
\* not committed yet
VerrouilleParEcriture(x) ==
  \E w \in Workers : pc[w] = "cr_commit" /\ \E i \in req[w].lus : i.produit = x

\* ProduitViewSet destroy; the DELETE waits for the lock on the row
SupprimerProduit(x) ==
  /\ produits[x].existe
  /\ ~VerrouilleParEcriture(x)
  /\ nb_requetes < MaxRequetes
  /\ nb_requetes' = nb_requetes + 1
  /\ produits' = [produits EXCEPT ![x] = [existe |-> FALSE, nom |-> NULL,
                                          stock |-> 0, statut |-> NULL, prix |-> 0]]
  /\ paniers' = [c \in Clients |-> SansProduit(paniers[c], x)]
  /\ lignes' = [o \in 1..Len(lignes) |-> SansProduit(lignes[o], x)]
  /\ UNCHANGED <<commandes, paiements, mouvements, taches, pc, req, resultat,
                 stock_initial, restitue>>

\* ------------------------------------------- ProduitViewSet update

\* get_object(): the product row as committed now, with the new name and
\* price of the request
ModifierCharger(w, x, nom, prix) ==
  /\ Requete(w)
  /\ produits[x].existe
  /\ pc' = [pc EXCEPT ![w] = "mp_charge"]
  /\ req' = [req EXCEPT ![w] =
        [ReqVide EXCEPT !.op = "modifier", !.ev = nom, !.total = prix,
           !.lus = AvecProduit({[cle |-> x, produit |-> x, quantite |-> 0,
                                 prix |-> produits[x].prix]})]]
  /\ resultat' = [resultat EXCEPT ![w] = "aucun"]
  /\ UNCHANGED <<bd, taches, stock_initial, restitue>>

\* serializer.save(): Produit.save() of the loaded instance writes every
\* field, the stock and status it loaded included; an UPDATE that finds no
\* row is followed by an INSERT of the instance
ModifierEnregistrer(w) ==
  /\ pc[w] = "mp_charge"
  /\ UNCHANGED nb_requetes
  /\ LET i == CHOOSE i \in req[w].lus : TRUE
     IN produits' = [produits EXCEPT ![i.cle] =
          [existe |-> TRUE, nom |-> req[w].ev, stock |-> i.p_stock,
           statut |-> SaveStatut(i.p_stock, i.p_statut), prix |-> req[w].total]]
  /\ Fin(w, "ok")
  /\ UNCHANGED <<paniers, commandes, lignes, paiements, mouvements, taches,
                 stock_initial, restitue>>

\* ------------------------------------------- ProduitViewSet.gerer_stock

TypesMouvement == {"entree", "sortie", "ajustement", "retour"}

\* gerer_stock: the new stock computed from the loaded product
StockApres(t, stock_avant, q) ==
  CASE t \in {"entree", "retour"} -> stock_avant + q
    [] t = "sortie" -> stock_avant - q
    [] t = "ajustement" -> q

\* mettre_a_jour_stock_produit: the status the signal sets from the stock
StatutSelonStock(stock, statut) ==
  IF stock = 0 THEN EPUISE
  ELSE IF statut = EPUISE /\ stock > 0 THEN ACTIF
  ELSE statut

\* get_object(), the quantity check and the computation of stock_apres
GererStockDebut(w, x, t, q) ==
  /\ Requete(w)
  /\ produits[x].existe
  /\ Len(mouvements) < MaxMouvements
  /\ IF t = "sortie" /\ q > produits[x].stock
     THEN Fin(w, "StockInsuffisant")
     ELSE /\ pc' = [pc EXCEPT ![w] = "gs_ecrire"]
          /\ req' = [req EXCEPT ![w] =
                [ReqVide EXCEPT !.op = "gerer_stock", !.ev = t, !.user = "adm",
                   !.lus = AvecProduit({[cle |-> x, produit |-> x,
                                         quantite |-> q, prix |-> 0]}),
                   !.total = StockApres(t, produits[x].stock, q)]]
          /\ resultat' = [resultat EXCEPT ![w] = "aucun"]
  /\ UNCHANGED <<bd, taches, stock_initial, restitue>>

\* MouvementStock.objects.create and its post_save signal, one transaction
GererStockEcrire(w) ==
  /\ pc[w] = "gs_ecrire"
  /\ UNCHANGED nb_requetes
  /\ LET i == CHOOSE i \in req[w].lus : TRUE
         x == i.produit
         apres == req[w].total
     IN IF ~produits[x].existe
        THEN /\ Fin(w, "DatabaseError")
             /\ UNCHANGED <<bd, taches, stock_initial, restitue>>
        ELSE /\ mouvements' = Append(mouvements,
                  [produit |-> x, type_mouvement |-> req[w].ev,
                   quantite |-> i.quantite, stock_avant |-> i.p_stock,
                   stock_apres |-> apres])
             /\ produits' = [produits EXCEPT
                  ![x].stock = apres,
                  ![x].statut = SaveStatut(apres, StatutSelonStock(apres, i.p_statut))]
             /\ Fin(w, "ok")
             /\ UNCHANGED <<paniers, commandes, lignes, paiements, taches,
                            stock_initial, restitue>>

Next ==
  \/ \E w \in Workers, u \in Utilisateurs : CreerDebut(w, u)
  \/ \E w \in Workers : CreerValider(w)
  \/ \E w \in Workers : CreerTotal(w)
  \/ \E w \in Workers : CreerEcrire(w)
  \/ \E w \in Workers : CreerCommit(w)
  \/ \E w \in Workers, ev \in Evenements, o \in 1..MaxCommandes :
       Charger(w, "transition", ev, "adm", o)
  \/ \E w \in Workers, u \in Utilisateurs, o \in 1..MaxCommandes :
       Charger(w, "annuler_commande", "annuler", u, o)
  \/ \E w \in Workers : TransitionAppliquer(w)
  \/ \E w \in Workers : AnnulerLigne(w)
  \/ \E w \in Workers : AnnulerSave(w)
  \/ \E w \in Workers : AnnulerExecuter(w)
  \/ \E w \in Workers : AnnulerCommit(w)
  \/ \E x \in Produits : SupprimerProduit(x)

Spec == Init /\ [][Next]_vars

\* ------------------------------- the follow-up of an order already placed

\* the state after c1's create_from_cart, counted as the first request, has
\* run alone from an initial state and the order has been moved on to statut s
InitSuivi ==
  \E sA \in 1..MaxStock, q1 \in 1..MaxQuantite, q1b \in 0..1,
     s \in {CONFIRMEE, EN_PREPARATION, EXPEDIEE} :
    LET panier == PanierInitial(q1, q1b)
        avant == [x \in Produits |-> IF x = "pA" THEN sA ELSE 1]
        lus == { [cle |-> i.cle, produit |-> i.produit, quantite |-> i.quantite,
                  prix |-> i.prix_snapshot, p_nom |-> "n1",
                  p_stock |-> avant[i.produit], p_statut |-> ACTIF] : i \in panier }
        reste(x) == IF \E i \in lus : i.produit = x
                    THEN StockDecremente(CHOOSE i \in lus : i.produit = x)
                    ELSE avant[x]
    IN /\ \A i \in lus : ~LigneRefusee(i)
       /\ produits = [x \in Produits |->
                        [existe |-> TRUE, nom |-> "n1", stock |-> reste(x),
                         statut |-> SaveStatut(reste(x), ACTIF),
                         prix |-> IF x = "pA" THEN 1 ELSE 2]]
       /\ paniers = [c \in Clients |-> IF c = "c1" THEN {} ELSE PanierInitial(1, 0)]
       /\ commandes = << [client |-> "c1", statut |-> s, date_livraison |-> NULL,
                           montant_total |-> total(panier)] >>
       /\ lignes = << LignesDe(lus) >>
       /\ paiements = << PaiementDe(1, total(panier), LIVRAISON) >>
       /\ mouvements = <<>>
       /\ taches = <<>>
       /\ pc = [w \in Workers |-> "repos"]
       /\ req = [w \in Workers |-> ReqVide]
       /\ resultat = [w \in Workers |-> "aucun"]
       /\ nb_requetes = 1
       /\ stock_initial = avant
       /\ restitue = << {} >>

NextSuivi ==
  \/ Next
  \/ \E w \in Workers, x \in Produits, nom \in Noms \ {"n1"}, prix \in Prix :
       ModifierCharger(w, x, nom, prix)
  \/ \E w \in Workers : ModifierEnregistrer(w)

SpecSuivi == InitSuivi /\ [][NextSuivi]_vars

\* ------------------------------------ orders and manual stock movements

NextStock ==
  \/ Next
  \/ \E w \in Workers, x \in Produits, t \in TypesMouvement, q \in 1..MaxQuantite :
       GererStockDebut(w, x, t, q)
  \/ \E w \in Workers : GererStockEcrire(w)

SpecStock == Init /\ [][NextStock]_vars

\* ------------------------------------------------ CartService (apps/cart)

\* Produit.actifs.get(pk=produit_id) finds the product
ProduitActif(x) == produits[x].existe /\ produits[x].statut = ACTIF

\* the cart after add_item's get_or_create: a new line, or the line of the
\* product with the quantities added up and the price captured again
PanierAvecArticle(panier, x, q) ==
  IF \E i \in panier : i.produit = x
  THEN { IF i.produit = x
         THEN [i EXCEPT !.quantite = i.quantite + q,
                        !.prix_snapshot = produits[x].prix]
         ELSE i : i \in panier }
  ELSE panier \cup { [cle |-> x, produit |-> x, quantite |-> q,
                      prix_snapshot |-> produits[x].prix] }

\* the quantity add_item compares with the stock
QuantiteDemandee(panier, x, q) ==
  IF \E i \in panier : i.produit = x
  THEN (CHOOSE i \in panier : i.produit = x).quantite + q
  ELSE q

\* CartService.add_item, one transaction; a refused call changes nothing
AjouterArticle(c, x, q) ==
  /\ nb_requetes < MaxRequetes
  /\ nb_requetes' = nb_requetes + 1
  /\ a_panier(c)
  /\ paniers' = IF /\ ProduitActif(x)
                   /\ produits[x].stock >= q
                   /\ QuantiteDemandee(paniers[c], x, q) <= produits[x].stock
                THEN [paniers EXCEPT ![c] = PanierAvecArticle(@, x, q)]
                ELSE paniers
  /\ UNCHANGED <<produits, commandes, lignes, paiements, mouvements, taches,
                 pc, req, resultat, stock_initial, restitue>>

\* CartService.update_quantity on the line `cle` of the cart
MettreAJourQuantite(c, cle, q) ==
  /\ nb_requetes < MaxRequetes
  /\ nb_requetes' = nb_requetes + 1
  /\ a_panier(c)
  /\ \E i \in paniers[c] :
       /\ i.cle = cle
       /\ paniers' =
            IF q <= 0 THEN [paniers EXCEPT ![c] = @ \ {i}]
            ELSE IF i.produit # NULL /\ q > produits[i.produit].stock THEN paniers
            ELSE [paniers EXCEPT ![c] = (@ \ {i}) \cup {[i EXCEPT !.quantite = q]}]
  /\ UNCHANGED <<produits, commandes, lignes, paiements, mouvements, taches,
                 pc, req, resultat, stock_initial, restitue>>

\* CartService.remove_item on the line `cle` of the cart
RetirerArticle(c, cle) ==
  /\ nb_requetes < MaxRequetes
  /\ nb_requetes' = nb_requetes + 1
  /\ a_panier(c)
  /\ \E i \in paniers[c] :
       /\ i.cle = cle
       /\ paniers' = [paniers EXCEPT ![c] = @ \ {i}]
  /\ UNCHANGED <<produits, commandes, lignes, paiements, mouvements, taches,
                 pc, req, resultat, stock_initial, restitue>>

\* order creation and the cart operations of the clients
NextPanier ==
  \/ \E w \in Workers, u \in Utilisateurs : CreerDebut(w, u)
  \/ \E w \in Workers : CreerValider(w)
  \/ \E w \in Workers : CreerTotal(w)
  \/ \E w \in Workers : CreerEcrire(w)
  \/ \E w \in Workers : CreerCommit(w)
  \/ \E c \in Clients, x \in Produits, q \in 1..MaxQuantite : AjouterArticle(c, x, q)
  \/ \E c \in Clients, x \in Produits, q \in 0..MaxQuantite :
       MettreAJourQuantite(c, x, q)
  \/ \E c \in Clients, x \in Produits : RetirerArticle(c, x)

SpecPanier == Init /\ [][NextPanier]_vars

\* ------------------------- the catalogue: orders, cancellations, movements

\* an initial state in which the seller has withdrawn product pB (inactif or
\* archive) after c1 put it in the cart, or has left it actif; the requests
\* that led here are counted as one
InitCatalogue ==
  /\ \E st \in {ACTIF, INACTIF, ARCHIVE} :
       produits = [x \in Produits |->
                     [existe |-> TRUE, nom |-> "n1", stock |-> 1,
                      statut |-> IF x = "pB" THEN st ELSE ACTIF,
                      prix |-> IF x = "pA" THEN 1 ELSE 2]]
  /\ paniers = [c \in Clients |->
                  IF c = "c1" THEN PanierInitial(1, 1) ELSE PanierInitial(1, 0)]
  /\ commandes = <<>>
  /\ lignes = <<>>
  /\ paiements = <<>>
  /\ mouvements = <<>>
  /\ taches = <<>>
  /\ pc = [w \in Workers |-> "repos"]
  /\ req = [w \in Workers |-> ReqVide]
  /\ resultat = [w \in Workers |-> "aucun"]
  /\ nb_requetes = 1
  /\ stock_initial = [x \in Produits |-> produits[x].stock]
  /\ restitue = <<>>

NextCatalogue ==
  \/ \E w \in Workers, u \in Clients : CreerDebut(w, u)
  \/ \E w \in Workers : CreerValider(w)
  \/ \E w \in Workers : CreerTotal(w)
  \/ \E w \in Workers : CreerEcrire(w)
  \/ \E w \in Workers : CreerCommit(w)
  \/ \E w \in Workers, u \in Clients, o \in 1..MaxCommandes :
       Charger(w, "annuler_commande", "annuler", u, o)
  \/ \E w \in Workers : AnnulerExecuter(w)
  \/ \E w \in Workers : AnnulerCommit(w)
  \/ \E w \in Workers, x \in Produits, t \in TypesMouvement, q \in 1..MaxQuantite :
       GererStockDebut(w, x, t, q)
  \/ \E w \in Workers : GererStockEcrire(w)

SpecCatalogue == InitCatalogue /\ [][NextCatalogue]_vars

\* ------------------------------------- alert_low_stock (Celery Beat task)

\* Produit.stock_minimum, the alert threshold of the products of the model
stock_minimum == 1

\* Produit.stock_bas.all(): the active products at or below their threshold,
\* each with the stock the alert reports
ProduitsStockFaible ==
  { <<x, produits[x].stock>> :
      x \in { y \in Produits : /\ produits[y].existe
                                /\ produits[y].statut = ACTIF
                                /\ produits[y].stock <= stock_minimum } }

\* the queue without the alert of an earlier run: only the last alert sent
\* to the administrators is kept
SansAlerte(q) == SelectSeq(q, LAMBDA t : t.nom # "alert_low_stock")

\* one run of alert_low_stock: nothing is sent when no product is listed
AlerteStockFaible ==
  /\ ProduitsStockFaible # {}
  /\ taches' = Append(SansAlerte(taches),
                      [nom |-> "alert_low_stock", cmd |-> 0, tx |-> NULL,
                       liste |-> ProduitsStockFaible])
  /\ UNCHANGED <<bd, pc, req, resultat, nb_requetes, stock_initial, restitue>>

NextAlerte ==
  \/ \E w \in Workers, u \in Clients : CreerDebut(w, u)
  \/ \E w \in Workers : CreerValider(w)
  \/ \E w \in Workers : CreerTotal(w)
  \/ \E w \in Workers : CreerEcrire(w)
  \/ \E w \in Workers : CreerCommit(w)
  \/ AlerteStockFaible

\* a request that has started runs to its end, and Celery Beat keeps
\* running the task
SpecAlerte ==
  /\ Init
  /\ [][NextAlerte]_vars
  /\ WF_vars(AlerteStockFaible)
  /\ \A w \in Workers :
       WF_vars(CreerValider(w) \/ CreerTotal(w) \/ CreerEcrire(w) \/ CreerCommit(w))

\* ======================================================== properties

TypeOK ==
  /\ \A x \in Produits : produits[x].stock \in Nat
  /\ Len(commandes) <= MaxCommandes
  /\ nb_requetes <= MaxRequetes

Existantes == 1..Len(commandes)

\* the quantity of product x in the lines of all orders
RECURSIVE QuantiteLignes(_, _)
QuantiteLignes(ls, x) ==
  IF ls = {} THEN 0
  ELSE LET l == CHOOSE l \in ls : TRUE
       IN (IF l.cle = x THEN l.quantite ELSE 0) + QuantiteLignes(ls \ {l}, x)

RECURSIVE QuantiteCommandee(_, _)
QuantiteCommandee(n, x) ==
  IF n = 0 THEN 0 ELSE QuantiteLignes(lignes[n], x) + QuantiteCommandee(n - 1, x)

\* a worker's request ends in this step with result r
Termine(w, r) == pc[w] # "repos" /\ pc'[w] = "repos" /\ resultat'[w] = r

\* C1: as long as nothing has been put back on the stock, the quantities of
\* the orders that create_from_cart has accepted from the carts of different
\* clients never add up, for any product, to more than the stock the product
\* had before them.
C1_PasDeSurvente ==
  ( /\ \A o \in Existantes : restitue[o] = {}
    /\ mouvements = <<>>
    /\ \A o1, o2 \in Existantes :
         o1 # o2 => commandes[o1].client # commandes[o2].client )
    => \A x \in Produits : QuantiteCommandee(Len(commandes), x) <= stock_initial[x]

\* C2: a create_from_cart that succeeds takes from the persisted stock of
\* every product of a cart line exactly the line's quantity, and leaves the
\* persisted stock of every other product as it was.
C2_StockDecremente ==
  [][\A w \in Workers :
       (pc[w] = "cr_commit" /\ Termine(w, "ok")) =>
         \A x \in Produits :
           IF \E i \in req[w].lus : i.produit = x
           THEN \A i \in req[w].lus :
                  i.produit = x =>
                    produits'[x].stock = produits[x].stock - i.quantite
           ELSE produits'[x].stock = produits[x].stock]_vars

\* one call alone, quantity 2: the line's product is down by 2, another
\* product is untouched
C2_Temoin ==
  /\ Len(commandes) = 1 /\ nb_requetes = 1
  /\ \E w \in Workers : resultat[w] = "ok"
  /\ \E l \in lignes[1] :
       /\ l.quantite = 2
       /\ produits[l.produit].stock = stock_initial[l.produit] - 2
  /\ \E y \in Produits :
       /\ \A l \in lignes[1] : l.produit # y
       /\ produits[y].stock = stock_initial[y]

\* C3: an annuler_commande that succeeds on an order it found in EN_ATTENTE,
\* CONFIRMEE, EN_PREPARATION or EXPEDIEE leaves the order ANNULEE and adds to
\* the persisted stock of every line's product exactly the line's quantity.
C3_StockRestitue ==
  [][\A w \in Workers :
       (pc[w] = "an_commit" /\ Termine(w, "ok")) =>
         LET o == req[w].cmd
         IN /\ req[w].inst.statut \in {EN_ATTENTE, CONFIRMEE, EN_PREPARATION, EXPEDIEE}
            /\ commandes'[o].statut = ANNULEE
            /\ \A l \in lignes[o] :
                 l.produit # NULL =>
                   produits'[l.produit].stock
                     = produits[l.produit].stock + l.quantite]_vars

\* create then cancel, nothing else: the stock is back to what it was
C3_Temoin ==
  /\ Len(commandes) = 1 /\ nb_requetes = 2
  /\ commandes[1].statut = ANNULEE
  /\ \E l \in lignes[1] : l.quantite = 2 /\ l.cle \in restitue[1]
  /\ \A x \in Produits : produits[x].existe /\ produits[x].stock = stock_initial[x]

\* C4: a create_from_cart whose cart has a line without product, or a line
\* whose product has less stock than the line asks, ends in an error
\* (StockInsuffisant when only stock is short) and has written nothing:
\* orders, lines, payments, stock movements, stocks and carts are unchanged.
C4_EchecSansEcriture ==
  [][\A w \in Workers :
       /\ (pc[w] = "repos" /\ pc'[w] = "cr_items") => bd' = bd
       /\ (pc[w] = "cr_items" /\ pc'[w] # "cr_items") =>
            LET panier == paniers[req[w].user]
                sans == { i \in panier : i.produit = NULL }
                court == { i \in panier : i.produit # NULL
                                          /\ produits[i.produit].stock < i.quantite }
            IN /\ bd' = bd
               /\ (sans \cup court # {}) =>
                    /\ pc'[w] = "repos"
                    /\ resultat'[w] \in {"StockInsuffisant", "ProduitIndisponible"}
                    /\ (sans = {}) => resultat'[w] = "StockInsuffisant"
                    /\ (court = {}) => resultat'[w] = "ProduitIndisponible"]_vars

\* a two-line cart refused for the stock of one of its lines
C4_Temoin ==
  /\ \E w \in Workers : resultat[w] = "StockInsuffisant" /\ pc[w] = "repos"
  /\ Cardinality(paniers["c1"]) = 2
  /\ nb_requetes = 1
  /\ commandes = <<>> /\ paiements = <<>>

\* the transition table of the order aggregate: (state, event) rows
TableTransitions ==
  { <<EN_ATTENTE, "confirmer">>, <<CONFIRMEE, "mettre_en_preparation">>,
    <<EN_PREPARATION, "expedier">>, <<EXPEDIEE, "livrer">>,
    <<EN_ATTENTE, "annuler">>, <<CONFIRMEE, "annuler">>,
    <<EN_PREPARATION, "annuler">>, <<EXPEDIEE, "annuler">> }

C6_TerminalAbsorbant ==
  [][\A o \in Existantes :
       commandes[o].statut \in {LIVREE, ANNULEE} =>
         commandes'[o].statut = commandes[o].statut]_vars

\* the edges of the order lifecycle
Aretes ==
  { <<EN_ATTENTE, CONFIRMEE>>, <<CONFIRMEE, EN_PREPARATION>>,
    <<EN_PREPARATION, EXPEDIEE>>, <<EXPEDIEE, LIVREE>>,
    <<EN_ATTENTE, ANNULEE>>, <<CONFIRMEE, ANNULEE>>,
    <<EN_PREPARATION, ANNULEE>>, <<EXPEDIEE, ANNULEE>> }

\* C7: every change of an order's persisted state is one edge of the table.
C7_ChangementPasAPas ==
  [][\A o \in Existantes :
       \/ commandes'[o].statut = commandes[o].statut
       \/ <<commandes[o].statut, commandes'[o].statut>> \in Aretes]_vars

\* C8: a request that persists a new state of an order does so while the
\* persisted state is still the one its transition check has accepted.
C8_GardeAtomique ==
  [][\A w \in Workers :
       (pc[w] \in {"tr_charge", "tr_lignes", "an_commit"} /\ Termine(w, "ok")) =>
         commandes[req[w].cmd].statut = req[w].inst.statut]_vars

\* C9: in every persisted state an order's lines have had their stock
\* restored exactly when the order is ANNULEE.
C9_AnnulationToutOuRien ==
  \A o \in Existantes :
    /\ restitue[o] # {} => commandes[o].statut = ANNULEE
    /\ commandes[o].statut = ANNULEE =>
         \A l \in lignes[o] : l.produit # NULL => l.cle \in restitue[o]

\* C10: a create_from_cart that succeeds has stored an order of the calling
\* client in CONFIRMEE with one line per cart line the call read, each with
\* the cart line's quantity, and has left the client's cart without items.
C10_CommandeCreee ==
  [][\A w \in Workers :
       (pc[w] = "cr_commit" /\ Termine(w, "ok")) =>
         LET o == Len(commandes')
             c == req[w].user
         IN /\ o = Len(commandes) + 1
            /\ commandes'[o].client = c
            /\ commandes'[o].statut = CONFIRMEE
            /\ Cardinality(lignes'[o]) = Cardinality(req[w].lus)
            /\ \A i \in req[w].lus :
                 \E l \in lignes'[o] :
                   l.produit = i.produit /\ l.quantite = i.quantite
            /\ c \in DOMAIN paniers'
            /\ paniers'[c] = {}]_vars

C10_Temoin ==
  /\ Len(commandes) = 1 /\ nb_requetes = 1
  /\ commandes[1].client = "c1" /\ commandes[1].statut = CONFIRMEE
  /\ Cardinality(lignes[1]) = 2
  /\ paniers["c1"] = {} /\ paniers["c2"] # {}

\* the Paiement rows of order o
PaiementsDe(o) == { k \in 1..Len(paiements) : paiements[k].commande = o }

\* C11: in every reachable state every order has exactly one Paiement, whose
\* amount is the order's total; and as long as the order is in the state its
\* creation left it in (CONFIRMEE) that payment is en_attente.
C11_UnPaiementParCommande ==
  /\ \A o \in Existantes :
       /\ Cardinality(PaiementsDe(o)) = 1
       /\ \A k \in PaiementsDe(o) :
            /\ paiements[k].montant = commandes[o].montant_total
            /\ (commandes[o].statut = CONFIRMEE
                  => paiements[k].statut = PAIEMENT_EN_ATTENTE)
  /\ \A k \in 1..Len(paiements) : paiements[k].commande \in Existantes

\* an order with a cart of total 3 (pA x 1, pB x 1), cancelled afterwards,
\* still has its one payment of 3
C11_Temoin ==
  /\ Len(commandes) = 1 /\ commandes[1].statut = ANNULEE
  /\ commandes[1].montant_total = 3
  /\ Cardinality(PaiementsDe(1)) = 1
  /\ paiements[1].montant = 3

\* what a ledger row adds to the stock of its product
Variation(m) ==
  CASE m.type_mouvement \in {"entree", "retour"} -> m.quantite
    [] m.type_mouvement = "sortie" -> 0 - m.quantite
    [] m.type_mouvement = "ajustement" -> m.stock_apres - m.stock_avant

\* the running sum of the first n ledger rows of product x
RECURSIVE SommeMouvements(_, _)
SommeMouvements(n, x) ==
  IF n = 0 THEN 0
  ELSE (IF mouvements[n].produit = x THEN Variation(mouvements[n]) ELSE 0)
       + SommeMouvements(n - 1, x)

\* C12: in every reachable state the stock of every product is its initial
\* stock plus the running sum of its StockMovement rows, order creation and
\* cancellation having appended one row per line.
C12_GrandLivreComplet ==
  \A x \in Produits :
    produits[x].existe =>
      produits[x].stock = stock_initial[x] + SommeMouvements(Len(mouvements), x)

\* C15: a create_from_cart for a user whose cart has no items, or who has no
\* cart, goes no further than its first step; a request that ends in its
\* first step reports the empty-cart error and that step creates no order,
\* line or payment, changes no stock and no cart.
C15_PanierVide ==
  [][\A w \in Workers :
       /\ (pc[w] = "repos" /\ pc'[w] # "repos" /\ req'[w].op = "creer")
            => (a_panier(req'[w].user) /\ paniers[req'[w].user] # {})
       /\ (pc[w] = "repos" /\ pc'[w] = "repos" /\ resultat'[w] # resultat[w])
            => /\ resultat'[w] \in {"PanierVide", "PasDePanier"}
               /\ \E u \in Utilisateurs : ~a_panier(u) \/ paniers[u] = {}
               /\ bd' = bd
               /\ taches' = taches]_vars

\* c1 orders, which empties its cart, then calls again; meanwhile the user
\* without a cart has called too
C15_Temoin ==
  /\ resultat["w1"] = "PanierVide" /\ resultat["w2"] = "PasDePanier"
  /\ paniers["c1"] = {}
  /\ Len(commandes) = 1 /\ Len(paiements) = 1 /\ Len(lignes) = 1

\* C13: the payment of an order paid on delivery is reussi once the order is
\* LIVREE, and en_attente as long as the order has not been delivered.
C13_ReglementALaLivraison ==
  \A o \in Existantes :
    \A k \in PaiementsDe(o) :
      paiements[k].mode = LIVRAISON =>
        /\ commandes[o].statut = LIVREE => paiements[k].statut = REUSSI
        /\ commandes[o].statut \in {CONFIRMEE, EN_PREPARATION, EXPEDIEE}
             => paiements[k].statut = PAIEMENT_EN_ATTENTE

\* C14: annuler_commande called by a user who is neither the order's client
\* nor an administrator ends with NonAutorise and changes neither the order
\* nor any stock; called by the order's client or by an administrator on an
\* order it finds cancellable, it goes through and ends with the order ANNULEE.
C14_AutorisationAnnulation ==
  [][\A w \in Workers :
       /\ (pc[w] = "an_charge" /\ pc'[w] # "an_charge") =>
            IF req[w].inst.client # req[w].user /\ req[w].user \notin Admins
            THEN /\ Termine(w, "NonAutorise")
                 /\ commandes' = commandes
                 /\ produits' = produits
            ELSE req[w].inst.statut \notin {LIVREE, ANNULEE} => pc'[w] = "an_commit"
       /\ (pc[w] = "an_commit" /\ pc'[w] # "an_commit") =>
            /\ Termine(w, "ok")
            /\ commandes'[req[w].cmd].statut = ANNULEE]_vars

\* the other client's cancel has been refused and the administrator's cancel
\* of the same order has gone through
C14_Temoin ==
  /\ resultat["w1"] = "ok" /\ resultat["w2"] = "NonAutorise"
  /\ commandes[1].client = "c1" /\ commandes[1].statut = ANNULEE
  /\ \A x \in Produits : produits[x].existe /\ produits[x].stock = stock_initial[x]

\* C16: peut_etre_annulee is true exactly for the states other than LIVREE
\* and ANNULEE, and for every state, every stored order and every loaded
\* instance it is true if and only if annuler() is accepted from there.
C16_AnnulableSsiTransition ==
  /\ \A s \in Statuts :
       LET inst == [InstVide EXCEPT !.statut = s]
       IN /\ peut_etre_annulee(inst) <=> s \notin {LIVREE, ANNULEE}
          /\ peut_etre_annulee(inst) <=> TransitionPermise(inst, "annuler")
  /\ \A o \in Existantes :
       peut_etre_annulee(commandes[o]) <=> TransitionPermise(commandes[o], "annuler")
  /\ \A w \in Workers :
       pc[w] \in {"an_charge", "tr_charge"} =>
         (peut_etre_annulee(req[w].inst) <=> TransitionPermise(req[w].inst, "annuler"))

\* a delivered order, loaded by a cancel request, is not cancellable
C16_Temoin ==
  \E w \in Workers :
    /\ pc[w] = "an_charge"
    /\ req[w].inst.statut = LIVREE
    /\ commandes[req[w].cmd].statut = LIVREE
    /\ ~peut_etre_annulee(req[w].inst)

\* what an order line keeps of the product: name, unit price and quantity
Instantane(ls) ==
  { [cle |-> l.cle, produit_nom |-> l.produit_nom, quantite |-> l.quantite,
     prix_unitaire |-> l.prix_unitaire] : l \in ls }

\* C17: no step, the change of a product's name or price and the deletion
\* of a product included, changes the product name, unit price or quantity
\* of a line of an existing order, or the order's total.
C17_LignesFigees ==
  [][\A o \in Existantes :
       /\ Instantane(lignes'[o]) = Instantane(lignes[o])
       /\ commandes'[o].montant_total = commandes[o].montant_total]_vars

\* pA renamed and re-priced, pB deleted: the two lines of the order still
\* carry the name, price and quantity of the day of the order
C17_Temoin ==
  /\ produits["pA"].existe /\ produits["pA"].nom = "n2" /\ produits["pA"].prix = 2
  /\ ~produits["pB"].existe
  /\ commandes[1].montant_total = 3
  /\ \E l \in lignes[1] :
       l.cle = "pA" /\ l.produit_nom = "n1" /\ l.prix_unitaire = 1 /\ l.quantite = 1
  /\ \E l \in lignes[1] :
       l.cle = "pB" /\ l.produit = NULL /\ l.produit_nom = "n1" /\ l.prix_unitaire = 2

\* C18: an enqueueing that raises neither fails nor undoes the mutation that
\* sent the signal: no request ends with the notification's error;
\* create_from_cart goes on to its commit, which stores the order in
\* CONFIRMEE, takes the quantities from the stock it read and empties the
\* cart; a permitted livrer persists LIVREE, task or no task.
C18_EchecNotificationIsole ==
  [][\A w \in Workers :
       /\ resultat'[w] # "ErreurNotification"
       /\ (pc[w] = "cr_ecrire" /\ pc'[w] # "cr_ecrire" /\ ~ProduitDisparu(req[w].lus))
            => /\ pc'[w] = "cr_commit"
               /\ req'[w].notif \in {"enfilee", "echec"}
               /\ (req'[w].notif = "echec" <=> taches' = taches)
       /\ (pc[w] = "cr_commit" /\ pc'[w] # "cr_commit" /\ req[w].notif = "echec")
            => /\ Termine(w, "ok")
               /\ commandes'[Len(commandes')].statut = CONFIRMEE
               /\ commandes'[Len(commandes')].client = req[w].user
               /\ \A i \in req[w].lus :
                    produits'[i.produit].stock = i.p_stock - i.quantite
               /\ paniers'[req[w].user] = {}
       /\ (pc[w] = "tr_charge" /\ pc'[w] # "tr_charge" /\ req[w].ev = "livrer"
             /\ req[w].inst.statut = EXPEDIEE)
            => /\ Termine(w, "ok")
               /\ commandes'[req[w].cmd].statut = LIVREE]_vars

\* both enqueueings have failed: the queue is empty, yet the first order is
\* LIVREE and c2's order is stored in CONFIRMEE with its cart emptied
C18_Temoin ==
  /\ taches = <<>>
  /\ Len(commandes) = 2
  /\ commandes[1].statut = LIVREE /\ commandes[1].date_livraison # NULL
  /\ commandes[2].statut = CONFIRMEE /\ commandes[2].client = "c2"
  /\ paniers["c2"] = {}
  /\ \A w \in Workers : pc[w] = "repos" /\ resultat[w] = "ok"

\* C19: every task in the queue was enqueued for an order state that is
\* committed: no task belongs to a transaction still open, and the order it
\* names is a stored order.
C19_EnvoiApresCommit ==
  \A k \in 1..Len(taches) :
    /\ taches[k].tx = NULL
    /\ taches[k].cmd \in Existantes

\* the quantity of product x in the lines of the first n orders that are
\* not ANNULEE
RECURSIVE QuantiteNonAnnulee(_, _)
QuantiteNonAnnulee(n, x) ==
  IF n = 0 THEN 0
  ELSE (IF commandes[n].statut # ANNULEE THEN QuantiteLignes(lignes[n], x) ELSE 0)
       + QuantiteNonAnnulee(n - 1, x)

\* C20: in every reachable state the stock of every product is its initial
\* stock plus the net of its manual movements minus the quantities of the
\* product in the lines of the orders that are not ANNULEE, and is not
\* negative.
C20_ConservationGlobale ==
  \A x \in Produits :
    produits[x].existe =>
      /\ produits[x].stock >= 0
      /\ produits[x].stock = stock_initial[x] + SommeMouvements(Len(mouvements), x)
                               - QuantiteNonAnnulee(Len(commandes), x)

\* the orders of client c
CommandesDe(c) == { o \in Existantes : commandes[o].client = c }

\* C21: a cart that is filled once is converted into at most one order, also
\* when its client submits it twice concurrently: no client whose cart is
\* never refilled has two orders.
C21_UnPanierUneCommande ==
  \A c \in Clients : Cardinality(CommandesDe(c)) <= 1

\* the sum over order lines of quantity x unit price
RECURSIVE SommeLignes(_)
SommeLignes(ls) ==
  IF ls = {} THEN 0
  ELSE LET l == CHOOSE l \in ls : TRUE
       IN l.quantite * l.prix_unitaire + SommeLignes(ls \ {l})

\* C22: the commit of a create_from_cart leaves an order whose total is the
\* sum of quantity x unit price over its lines and a payment of that amount,
\* and the cart lines it deletes are exactly the ones that became order
\* lines, whatever cart operations of the client ran in between.
C22_TotalEgalLignes ==
  [][\A w \in Workers :
       (pc[w] = "cr_commit" /\ pc'[w] = "repos" /\ resultat'[w] = "ok") =>
         LET o == Len(commandes')
             c == req[w].user
         IN /\ commandes'[o].montant_total = SommeLignes(lignes'[o])
            /\ paiements'[Len(paiements')].montant = commandes'[o].montant_total
            /\ { <<i.cle, i.quantite, i.prix_snapshot>> : i \in paniers[c] }
                 = { <<l.cle, l.quantite, l.prix_unitaire>> : l \in lignes'[o] }]_vars

\* the status whose entry a task announces
StatutAnnonce(nom) ==
  IF nom = "send_order_confirmation_email" THEN CONFIRMEE ELSE LIVREE

\* C23: a save enqueues at most one task, and a task enqueued by a save that
\* commits on its own belongs to an order whose persisted status that save
\* changes into the status the task announces (CONFIRMEE for the
\* confirmation, LIVREE for the review reminder): a save that leaves the
\* persisted status as it was enqueues nothing.
C23_NotificationSelonEtat ==
  [][/\ Len(taches') <= Len(taches) + 1
     /\ \A k \in (Len(taches) + 1)..Len(taches') :
          taches'[k].tx = NULL =>
            LET o == taches'[k].cmd
            IN /\ o \in 1..Len(commandes)
               /\ commandes'[o].statut = StatutAnnonce(taches'[k].nom)
               /\ commandes[o].statut # commandes'[o].statut]_vars

\* C24: a cancellation that puts back the line of a product that order
\* creation had brought to stock 0 and marked out of stock leaves the product
\* with a stock above 0 and active again.
C24_ReactivationParAnnulation ==
  [][\A o \in 1..Len(restitue), x \in Produits :
       ( /\ Len(restitue') = Len(restitue)
         /\ x \in restitue'[o] \ restitue[o]
         /\ produits[x].existe
         /\ produits[x].stock = 0 /\ produits[x].statut = EPUISE )
       => (produits'[x].stock > 0 /\ produits'[x].statut = ACTIF)]_vars

\* C25: a product whose status is inactif or archive keeps that status in
\* every step, whatever the step does to its stock.
C25_ArchiveResteArchive ==
  [][\A x \in Produits :
       (produits[x].existe /\ produits[x].statut \in {INACTIF, ARCHIVE})
         => produits'[x].statut = produits[x].statut]_vars

\* C26: the step that creates a MouvementStock leaves the product's stock
\* equal to the movement's stock_apres; the product is epuise if that value
\* is 0, and actif if it was epuise and the value is above 0.
C26_MouvementApplique ==
  [][Len(mouvements') = Len(mouvements) + 1 =>
       LET m == mouvements'[Len(mouvements')]
           x == m.produit
       IN /\ produits'[x].stock = m.stock_apres
          /\ m.stock_apres = 0 => produits'[x].statut = EPUISE
          /\ (produits[x].statut = EPUISE /\ m.stock_apres > 0)
               => produits'[x].statut = ACTIF]_vars

\* a restock has been applied to a product that an order had emptied: the
\* movement starts from stock 0 and the product is actif again
C26_Temoin ==
  /\ Len(commandes) = 1
  /\ \E k \in 1..Len(mouvements) :
       /\ mouvements[k].type_mouvement = "entree"
       /\ mouvements[k].stock_avant = 0
       /\ produits[mouvements[k].produit].stock = mouvements[k].stock_apres
       /\ produits[mouvements[k].produit].statut = ACTIF

\* C30: in every state reached through order creation, cancellation and
\* stock movements, no product is actif with stock 0.
C30_ActifAvecStock ==
  \A x \in Produits :
    produits[x].existe => ~(produits[x].statut = ACTIF /\ produits[x].stock = 0)

\* an order has emptied an active product, which is now epuise
C30_Temoin ==
  \E x \in Produits :
    /\ produits[x].existe /\ produits[x].stock = 0 /\ produits[x].statut = EPUISE
    /\ stock_initial[x] > 0
    /\ \E o \in Existantes : \E l \in lignes[o] : l.produit = x
    /\ mouvements = <<>>

\* the last alert sent lists product x with the stock it has now
AlerteListe(x) ==
  \E k \in 1..Len(taches) :
    /\ taches[k].nom = "alert_low_stock"
    /\ <<x, produits[x].stock>> \in taches[k].liste

\* C27: whenever a product's stock has been decremented to a value at or
\* below its threshold, 0 included, an alert that lists the product with
\* that stock is eventually sent.
C27_AlerteStockFaible ==
  \A x \in Produits :
    (produits[x].existe /\ produits[x].stock < stock_initial[x]
       /\ produits[x].stock <= stock_minimum)
      ~> AlerteListe(x)

\* the workers that are applying a transition to an order they have loaded
EnTransition ==
  { w \in Workers : pc[w] \in {"tr_charge", "tr_lignes", "an_charge", "an_commit"} }

\* the products of the lines of order o
ProduitsDe(o) == { l.produit : l \in lignes[o] }

\* C28: a step of a transition leaves the total, the client, the lines and
\* the payments of every order as they are, and changes no other order; it
\* changes the delivery date only when it is livrer, and it changes products
\* only when it is annuler, and then only the stock of the products of the
\* order's lines.
C28_TransitionCadre ==
  [][\A w \in EnTransition :
       (pc'[w] # pc[w] \/ req'[w] # req[w]) =>
         LET o == req[w].cmd
             ev == req[w].ev
         IN /\ lignes' = lignes /\ paiements' = paiements /\ paniers' = paniers
            /\ \A n \in Existantes :
                 /\ commandes'[n].montant_total = commandes[n].montant_total
                 /\ commandes'[n].client = commandes[n].client
                 /\ n # o => commandes'[n] = commandes[n]
            /\ ev # "livrer" => commandes'[o].date_livraison = commandes[o].date_livraison
            /\ \A x \in Produits :
                 /\ (ev # "annuler" \/ x \notin ProduitsDe(o)) => produits'[x] = produits[x]
                 /\ produits'[x].statut = produits[x].statut
                 /\ produits'[x].nom = produits[x].nom
                 /\ produits'[x].prix = produits[x].prix]_vars

\* C29: in every persisted state an order has a delivery date if and only if
\* it is LIVREE; livrer is what sets it.
C29_DateLivraison ==
  \A o \in Existantes :
    commandes[o].date_livraison # NULL <=> commandes[o].statut = LIVREE

\* an order has been delivered and carries its date, while another request
\* on the same order was refused
C29_Temoin ==
  /\ \E o \in Existantes :
       commandes[o].statut = LIVREE /\ commandes[o].date_livraison = "horodatage"
  /\ \E w \in Workers : resultat[w] \in {"TransitionNotAllowed", "NonAnnulable"}

====
